---------------------------- MODULE Spec2Model ----------------------------
(***************************************************************************)
(* Model of the Automaton Auditor (Github-Evaluator): the LangGraph        *)
(* workflow of src/src/graph.py, its node functions (detectives, judges,   *)
(* evidence_aggregator, chief_justice_node, report_writer) and the         *)
(* deterministic synthesis rules of src/src/nodes/justice.py.              *)
(*                                                                         *)
(* Spec     one run of the compiled graph `app`, from app.invoke to END or *)
(*          to an exception that escapes app.invoke.                       *)
(***************************************************************************)
EXTENDS Integers, Sequences, FiniteSets, TLC

VARIABLES
    rubric_json,    \* what rubric.json holds (read by load_rubric and the Chief Justice)
    state,          \* the channels of AgentState (values committed so far)
    todo,           \* nodes of the current superstep that have not run yet
    writes,         \* deltas returned in this superstep, in completion order
    committed,      \* nodes whose delta has been merged into `state`
    runs,           \* how many times each node function has been called
    seen,           \* per node: `committed` as it was when the node started
    returned,       \* per node: the delta it returned (history)
    merge_order,    \* nodes in the order their deltas were merged (history)
    route,          \* what evidence_router returned ("none" before it ran)
    status,         \* "running" | "END" | "raised"
    exc,            \* the exception that escaped, and the node that raised it
    cj_values       \* what chief_justice_node computed before it returned or raised

vars == <<rubric_json, state, todo, writes, committed, runs, seen, returned,
          merge_order, route, status, exc, cj_values>>

-----------------------------------------------------------------------------
(* Bounds of the model *)

\* the most rubric dimensions in a rubric handed to a run
MaxDims == 1

-----------------------------------------------------------------------------
(* The graph *)

Detectives == {"repo_investigator", "doc_analyst", "vision_inspector"}
Judges == {"prosecutor", "defense", "tech_lead"}

Nodes ==
    {"load_rubric"} \cup Detectives \cup
    {"evidence_aggregator", "judges_entry"} \cup Judges \cup
    {"chief_justice", "report_writer"}

\* a plausible slip: the aggregator wired next to the detectives instead of
\* behind them, and chief_justice wired to the fan-out hub
EdgesNoFanIn ==
    { <<"START", "load_rubric">>,
      <<"load_rubric", "repo_investigator">>,
      <<"load_rubric", "doc_analyst">>,
      <<"load_rubric", "vision_inspector">>,
      <<"load_rubric", "evidence_aggregator">>,
      <<"repo_investigator", "evidence_aggregator">>,
      <<"doc_analyst", "evidence_aggregator">>,
      <<"vision_inspector", "evidence_aggregator">>,
      <<"judges_entry", "prosecutor">>,
      <<"judges_entry", "defense">>,
      <<"judges_entry", "tech_lead">>,
      <<"judges_entry", "chief_justice">>,
      <<"prosecutor", "chief_justice">>,
      <<"defense", "chief_justice">>,
      <<"tech_lead", "chief_justice">>,
      <<"chief_justice", "report_writer">>,
      <<"report_writer", "END">> }

\* workflow.add_edge(...)
Edges ==
    { <<"START", "load_rubric">>,
      <<"load_rubric", "repo_investigator">>,
      <<"load_rubric", "doc_analyst">>,
      <<"load_rubric", "vision_inspector">>,
      <<"repo_investigator", "evidence_aggregator">>,
      <<"doc_analyst", "evidence_aggregator">>,
      <<"vision_inspector", "evidence_aggregator">>,
      <<"judges_entry", "prosecutor">>,
      <<"judges_entry", "defense">>,
      <<"judges_entry", "tech_lead">>,
      <<"prosecutor", "chief_justice">>,
      <<"defense", "chief_justice">>,
      <<"tech_lead", "chief_justice">>,
      <<"chief_justice", "report_writer">>,
      <<"report_writer", "END">> }

\* the path map of workflow.add_conditional_edges("evidence_aggregator", ...)
RouterTarget(r) ==
    IF r = "continue_to_judges" THEN "judges_entry" ELSE "report_writer"

\* the channels StateGraph(AgentState) declares; a key of an input or of a
\* returned delta that is not one of them is not stored
Channels ==
    {"repo_url", "repo_path", "rubric", "evidences", "opinions",
     "verified_paths", "hallucinated_paths", "repo_manifest", "final_report"}

-----------------------------------------------------------------------------
(* Python values *)

\* a dict is a sequence of <<key, value>> pairs in insertion order
DictKeys(d) == { d[i][1] : i \in 1..Len(d) }
DictGet(d, k) == d[CHOOSE i \in 1..Len(d) : d[i][1] = k][2]

\* d[k] = v
DictSet(d, k, v) ==
    IF k \in DictKeys(d)
    THEN [i \in 1..Len(d) |-> IF d[i][1] = k THEN <<k, v>> ELSE d[i]]
    ELSE Append(d, <<k, v>>)

\* operator.ior(a, b): a |= b
RECURSIVE Ior(_, _)
Ior(a, b) ==
    IF b = <<>> THEN a
    ELSE Ior(DictSet(a, b[1][1], b[1][2]), Tail(b))

\* operator.add(a, b) on lists
Add(a, b) == a \o b

\* out = []; for ev_list in evidences.values(): out.extend(ev_list)
RECURSIVE Flatten(_)
Flatten(d) ==
    IF d = <<>> THEN <<>> ELSE d[1][2] \o Flatten(Tail(d))

\* sum(len(ev_list) for ev_list in all_ev.values())
RECURSIVE TotalFindings(_)
TotalFindings(d) ==
    IF d = <<>> THEN 0 ELSE Len(d[1][2]) + TotalFindings(Tail(d))

\* list(a_set): some order of the elements (the same set gives the same list)
RECURSIVE SetToSeq(_)
SetToSeq(S) ==
    IF S = {} THEN <<>>
    ELSE LET x == CHOOSE y \in S : TRUE IN <<x>> \o SetToSeq(S \ {x})

Range(s) == { s[i] : i \in 1..Len(s) }

None == [present |-> FALSE]
Some(v) == [present |-> TRUE, value |-> v]


-----------------------------------------------------------------------------
(* Evidence records and paths *)

\* A path is the sequence of its '/'-separated components.  Of a text (an
\* Evidence's location or content) the model keeps the path-like tokens that
\* path_pattern.findall extracts from it, in order.
P1(a) == <<a>>
P2(a, b) == <<a, b>>
P3(a, b, c) == <<a, b, c>>

\* Evidence(detective_name, found, content, location, confidence): confidence
\* in percent; `paths` are the tokens of location followed by those of content;
\* `text` tells whether content is empty ("") and whether it holds the words
\* _apply_fact_supremacy looks for ("evaluat")
Evidence(name, found, conf, paths, text) ==
    [detective_name |-> name, found |-> found, confidence |-> conf,
     paths |-> paths, text |-> text]

\* the clones of the model: the file list get_all_repo_files returns and the
\* path tokens of the first analysis text (content)
Clone(manifest, cited) == [manifest |-> manifest, cited |-> cited]

SrcManifest ==
    << P2("src", "graph.py"), P2("src", "state.py"),
       P3("src", "nodes", "judges.py"), P3("src", "nodes", "justice.py"),
       P3("src", "tools", "repo_tools.py") >>

Clones ==
    { Clone(<<>>, <<>>),
      Clone(SrcManifest, <<>>),
      Clone(SrcManifest, << P2("src", "ghost.py") >>),
      Clone(<< P2("src", "graph.py"), P2("tests", "graph.py") >>,
            << P1("graph.py") >>) }

-----------------------------------------------------------------------------
(* Detectives: each operator is the set of outcomes of one call *)

Return(delta) == [kind |-> "return", delta |-> delta]
Raise(e) == [kind |-> "raise", exc |-> e]

\* the eight Evidence(...) of the try block, in order; `cited` are the path
\* tokens of the first analysis text
RepoFindings(cited) ==
    << Evidence("RepoInvestigator", TRUE, 100, <<P2("src", "graph.py")>> \o cited, "evaluat"),
       Evidence("RepoInvestigator", TRUE, 100, <<>>, "text"),
       Evidence("RepoInvestigator", TRUE, 100, <<>>, "text"),
       Evidence("RepoInvestigator", TRUE, 100, <<P2("src", "state.py")>>, "text"),
       Evidence("RepoInvestigator", TRUE, 100, <<P3("src", "nodes", "judges.py")>>, "text"),
       Evidence("RepoInvestigator", TRUE, 100, <<P3("src", "nodes", "judges.py")>>, "text"),
       Evidence("RepoInvestigator", TRUE, 100, <<P3("src", "nodes", "justice.py")>>, "text"),
       Evidence("RepoInvestigator", TRUE, 100, <<P3("src", "tools", "repo_tools.py")>>, "text") >>

NumRepoFindings == 8

\* the Evidence of the except block: location "repo_tools", content str(e)
RepoFailure == Evidence("RepoInvestigator", FALSE, 0, <<>>, "text")

\* how many findings were appended when an exception reaches the except
\* block: none (the clone fails) or all (get_all_repo_files fails)
FailurePoints == {0, NumRepoFindings}

\* repo_investigator(state): the clone and every analysis succeed, or one of
\* them raises after k findings were appended
repo_investigator(s) ==
    { Return([evidences |-> << <<"repo_investigator", RepoFindings(c.cited)>> >>,
              repo_manifest |-> c.manifest,
              hallucinated_paths |-> <<>>])
        : c \in Clones }
    \cup
    { Return([evidences |->
                 << <<"repo_investigator",
                      Append(SubSeq(RepoFindings(<<>>), 1, k), RepoFailure)>> >>,
              repo_manifest |-> <<>>,
              hallucinated_paths |-> <<>>])
        : k \in FailurePoints }

\* pdf_path = state.get("pdf_path") or "standard.pdf": "pdf_path" is no
\* channel of AgentState, so the default is taken
DocPdfPath == P1("standard.pdf")

\* doc_analyst(state): ingest_pdf raises (one failure record), or the two
\* vector-store findings are returned, or query_vector_store raises (it is
\* called outside any try)
doc_analyst(s) ==
    { Return([evidences |->
         << <<"doc_analyst",
              <<Evidence("DocAnalyst", FALSE, 0, <<DocPdfPath>>, "text")>> >> >>]) }
    \cup
    { Return([evidences |->
         << <<"doc_analyst",
              << Evidence("DocAnalyst", f, 95, <<DocPdfPath>>, "text"),
                 Evidence("DocAnalyst", f, 95, <<DocPdfPath>>, "text") >> >> >>])
        : f \in BOOLEAN }
    \cup
    { Raise("query_vector_store") }

\* a plausible slip: the delta keyed with a sibling's name
vision_inspector_sibling_key(s) ==
    { Return([evidences |->
         << <<"doc_analyst",
              <<Evidence("VisionInspector", TRUE, 70, <<P1("architecture.png")>>, "text")>> >> >>]),
      Return([evidences |->
         << <<"doc_analyst",
              <<Evidence("VisionInspector", FALSE, 100, <<>>, "text")>> >> >>]) }

\* vision_inspector(state): no model of `llms` is a Google class, so the vision
\* call is never made; architecture.png exists or it does not
vision_inspector(s) ==
    { Return([evidences |->
         << <<"vision_inspector",
              <<Evidence("VisionInspector", TRUE, 70, <<P1("architecture.png")>>, "text")>> >> >>]),
      Return([evidences |->
         << <<"vision_inspector",
              <<Evidence("VisionInspector", FALSE, 100, <<>>, "text")>> >> >>]) }


-----------------------------------------------------------------------------
(* evidence_aggregator and evidence_router *)

\* state.get(key, default)
StateGet(s, key, default) == IF key \in DOMAIN s THEN s[key] ELSE default

\* p.lstrip('./').lstrip('/'): leading '.' and '/' characters go, so leading
\* "." and ".." components go
RECURSIVE Clean(_)
Clean(p) ==
    IF p # <<>> /\ Head(p) \in {".", ".."} THEN Clean(Tail(p)) ELSE p

\* a.endswith('/' + b)
EndsWithSlash(a, b) ==
    /\ Len(b) >= 1
    /\ Len(a) > Len(b)
    /\ SubSeq(a, Len(a) - Len(b) + 1, Len(a)) = b

\* clean_p == rf or clean_p.endswith('/' + rf) or rf.endswith('/' + clean_p)
PathMatches(clean_p, rf) ==
    clean_p = rf \/ EndsWithSlash(clean_p, rf) \/ EndsWithSlash(rf, clean_p)

\* repo_files.update(['standard.pdf', 'architecture.png'])
AllowedStubs == { P1("standard.pdf"), P1("architecture.png") }

\* the cleaned candidates of every evidence record
RECURSIVE Candidates(_)
Candidates(evs) ==
    IF evs = <<>> THEN {}
    ELSE { Clean(p) : p \in Range(Head(evs).paths) } \cup Candidates(Tail(evs))

\* a plausible slip: verified.add(clean_p), the cited path, instead of
\* verified.add(rf), the manifest entry it matched
evidence_aggregator_adds_candidate(s) ==
    LET repo_files == Range(StateGet(s, "repo_manifest", <<>>)) \cup AllowedStubs
        cands == Candidates(Flatten(StateGet(s, "evidences", <<>>)))
        hit == { c \in cands : \E rf \in repo_files : PathMatches(c, rf) }
    IN { Return([verified_paths |-> SetToSeq(hit),
                 hallucinated_paths |-> SetToSeq(cands \ hit)]) }

\* evidence_aggregator(state).  `for rf in repo_files: ... break` adds the
\* first manifest entry that matches, in the iteration order of a set: when a
\* candidate matches several entries, any one of them can be the one added
\* (first[c]), the same order serving every candidate.
evidence_aggregator(s) ==
    LET repo_files == Range(StateGet(s, "repo_manifest", <<>>)) \cup AllowedStubs
        cands == Candidates(Flatten(StateGet(s, "evidences", <<>>)))
        Matching(c) == { rf \in repo_files : PathMatches(c, rf) }
        hit == { c \in cands : Matching(c) # {} }
        amb == { c \in hit : Cardinality(Matching(c)) > 1 }
        Firsts == { f \in [amb -> UNION { Matching(c) : c \in amb }] :
                      /\ \A c \in amb : f[c] \in Matching(c)
                      /\ \A c1, c2 \in amb :
                            (f[c1] \in Matching(c2) /\ f[c2] \in Matching(c1))
                               => f[c1] = f[c2] }
        First(f, c) == IF c \in amb THEN f[c] ELSE CHOOSE rf \in Matching(c) : TRUE
    IN { Return([verified_paths |-> SetToSeq({ First(f, c) : c \in hit }),
                 hallucinated_paths |-> SetToSeq(cands \ hit)])
           : f \in Firsts }

\* a plausible slip: the placeholders left out of the count, as the comment
\* in the source suggests ("excluding placeholders")
evidence_router_found_only(s) ==
    IF \A ev \in Range(Flatten(StateGet(s, "evidences", <<>>))) : ~ev.found
    THEN "skip_to_report" ELSE "continue_to_judges"

\* evidence_router(state)
evidence_router(s) ==
    IF TotalFindings(StateGet(s, "evidences", <<>>)) = 0
    THEN "skip_to_report" ELSE "continue_to_judges"

\* judges_entry(state): return {}
judges_entry(s) == { Return(<<>>) }

-----------------------------------------------------------------------------
(* Judges *)

\* scores a model's structured output carries in the runs of the graph
LlmScores == {5}

\* JudicialOpinion(judge, criterion_id, argument, cited_evidence, score,
\* is_automated_fallback).  Of `argument` the model keeps the words the
\* synthesis rules look for (words) and the paths it names (paths);
\* cited_evidence is the list of citation strings.
JudicialOpinion(judge, criterion_id, argument, cited, score, fallback) ==
    [judge |-> judge, criterion_id |-> criterion_id, argument |-> argument,
     cited_evidence |-> cited, score |-> score,
     is_automated_fallback |-> fallback]

Argument(words, paths) == [words |-> words, paths |-> paths]

JudgeRole(node) ==
    CASE node = "prosecutor" -> "Prosecutor"
      [] node = "defense" -> "Defense"
      [] node = "tech_lead" -> "TechLead"

\* one pass of `for dimension in rubric.get("dimensions", [])`: what is
\* appended to `opinions` for the dimension.  A model returns a
\* JudicialOpinion (appended after judge and criterion_id are set); every
\* model raises or none is configured (the stub, score 4); or a model returns
\* a value that is no JudicialOpinion, the assignment raises inside the try,
\* `opinion` stays bound to that value and nothing is appended.
OpinionsForDimension(judge_role, dimension) ==
    { << JudicialOpinion(judge_role, dimension.id, Argument({}, {}), <<>>,
                         sc, FALSE) >> : sc \in LlmScores }
    \cup
    { << JudicialOpinion(judge_role, dimension.id, Argument({}, {}), <<>>,
                         4, TRUE) >> }
    \cup
    { <<>> }

RECURSIVE OpinionLists(_, _)
OpinionLists(judge_role, dims) ==
    IF dims = <<>> THEN { <<>> }
    ELSE { h \o t : h \in OpinionsForDimension(judge_role, Head(dims)),
                    t \in OpinionLists(judge_role, Tail(dims)) }

\* all_evidence of get_judge_opinion: the records the judge numbers
\* "ID: 0", "ID: 1", ... in its prompt
judge_all_evidence(s) == Flatten(s.evidences)

\* a plausible slip: the judge writes the evidence list it numbered back to
\* the `evidences` channel
get_judge_opinion_writes_evidence(judge_role, s) ==
    IF "rubric" \notin DOMAIN s
    THEN { Raise("KeyError") }
    ELSE { Return([opinions |-> ops,
                   evidences |-> << <<"repo_investigator", judge_all_evidence(s)>> >>])
             : ops \in OpinionLists(judge_role,
                                    StateGet(s.rubric, "dimensions", <<>>)) }

\* get_judge_opinion(judge_role, state): rubric = state["rubric"] raises
\* KeyError when the run state holds no "rubric"
get_judge_opinion(judge_role, s) ==
    IF "rubric" \notin DOMAIN s
    THEN { Raise("KeyError") }
    ELSE { Return([opinions |-> ops])
             : ops \in OpinionLists(judge_role,
                                    StateGet(s.rubric, "dimensions", <<>>)) }

prosecutor(s) == get_judge_opinion("Prosecutor", s)
defense(s) == get_judge_opinion("Defense", s)
tech_lead(s) == get_judge_opinion("TechLead", s)


-----------------------------------------------------------------------------
(* Chief Justice: the synthesis rules of src/src/nodes/justice.py *)

\* A float score is kept exactly, as its number of twelfths: every score the
\* rules compute is a sum of integers over 3 or over 4, or 3.0 or 2.5.
Twelfths(n, d) == (12 * n) \div d

Min(a, b) == IF a <= b THEN a ELSE b
Max(a, b) == IF a >= b THEN a ELSE b

\* a plausible slip: rounding halves up instead of Python's round()
RoundHalfUp(c) == (c + 6) \div 12

\* int(round(x)): Python 3 rounds a half to the even neighbour
Round(c) ==
    LET q == c \div 12
        r == c % 12
    IN IF r < 6 THEN q
       ELSE IF r > 6 THEN q + 1
       ELSE IF q % 2 = 0 THEN q ELSE q + 1

\* int(c) for a citation string; None when int() raises ValueError
IntOf(c) ==
    CASE c = "0" -> Some(0) [] c = "1" -> Some(1) [] c = "2" -> Some(2)
      [] c = "3" -> Some(3) [] c = "4" -> Some(4) [] c = "5" -> Some(5)
      [] c = "6" -> Some(6) [] c = "7" -> Some(7) [] c = "8" -> Some(8)
      [] c = "9" -> Some(9)
      [] OTHER -> None

\* _citation_ids_to_evidence_index(citations)
RECURSIVE _citation_ids_to_evidence_index(_)
_citation_ids_to_evidence_index(citations) ==
    IF citations = <<>> THEN <<>>
    ELSE LET i == IntOf(Head(citations))
             rest == _citation_ids_to_evidence_index(Tail(citations))
         IN IF i.present THEN <<i.value>> \o rest ELSE rest

\* _get_all_evidence(state)
_get_all_evidence(s) == Flatten(StateGet(s, "evidences", <<>>))

\* next((op for op in relevant_ops if op.judge == judge), None)
FirstOp(relevant_ops, judge) ==
    LET idx == { i \in 1..Len(relevant_ops) : relevant_ops[i].judge = judge }
    IN IF idx = {} THEN None
       ELSE Some(relevant_ops[CHOOSE i \in idx : \A j \in idx : i <= j])

\* next((op.score for op in relevant_ops if op.judge == judge), 3)
ScoreOf(relevant_ops, judge) ==
    LET op == FirstOp(relevant_ops, judge)
    IN IF op.present THEN op.value.score ELSE 3

\* sum(1 for i in indices if 0 <= i < len(all_evidence)
\*                           and (all_evidence[i].content or "").strip())
RECURSIVE Supported(_, _)
Supported(indices, all_evidence) ==
    IF indices = <<>> THEN 0
    ELSE (IF /\ Head(indices) < Len(all_evidence)
             /\ all_evidence[Head(indices) + 1].text # ""
          THEN 1 ELSE 0) + Supported(Tail(indices), all_evidence)

\* _re_evaluate_evidence_for_variance(state, relevant_ops, all_evidence)
_re_evaluate_evidence_for_variance(relevant_ops, all_evidence) ==
    LET p_score == ScoreOf(relevant_ops, "Prosecutor")
        d0 == ScoreOf(relevant_ops, "Defense")
        t0 == ScoreOf(relevant_ops, "TechLead")
        defense_op == FirstOp(relevant_ops, "Defense")
        d_indices == IF defense_op.present
                     THEN _citation_ids_to_evidence_index(defense_op.value.cited_evidence)
                     ELSE <<>>
        d_overruled ==
            /\ defense_op.present
            /\ d0 >= 4
            /\ \/ d_indices = <<>>
               \/ 2 * Supported(d_indices, all_evidence) < Len(d_indices)
        prosecutor_op == FirstOp(relevant_ops, "Prosecutor")
        p_indices == IF prosecutor_op.present
                     THEN _citation_ids_to_evidence_index(prosecutor_op.value.cited_evidence)
                     ELSE <<>>
        p_verified ==
            /\ prosecutor_op.present
            /\ p_score <= 2
            /\ \E k \in 1..Len(p_indices) : p_indices[k] < Len(all_evidence)
        tech_op == FirstOp(relevant_ops, "TechLead")
        t_capped ==
            /\ tech_op.present
            /\ t0 >= 4
            /\ tech_op.value.cited_evidence = <<>>
    IN [p_score |-> p_score,
        d_score |-> IF d_overruled THEN Min(d0, 3) ELSE d0,
        t_score |-> IF t_capped THEN Min(t0, 4) ELSE t0,
        notes |-> (IF d_overruled THEN <<"Defense overruled">> ELSE <<>>)
                  \o (IF p_verified THEN <<"Prosecutor evidence re-verified">> ELSE <<>>)
                  \o (IF t_capped THEN <<"Tech Lead score capped">> ELSE <<>>)]

\* a plausible slip: the override sets the score to 3.0 instead of capping it
_apply_security_override_sets(criterion_id, p_score, computed_score, dissent, synthesis_rules) ==
    IF criterion_id \notin {"safe_tool_engineering", "structured_output_enforcement"}
    THEN [score |-> computed_score, dissent |-> dissent]
    ELSE IF p_score <= 1 /\ synthesis_rules.security_override_cap
    THEN [score |-> Twelfths(3, 1),
          dissent |-> Append(dissent, "SECURITY OVERRIDE")]
    ELSE IF p_score <= 2
    THEN [score |-> Twelfths(3, 1),
          dissent |-> Append(dissent, "Security concern")]
    ELSE [score |-> computed_score, dissent |-> dissent]

\* _apply_security_override(criterion_id, p_score, computed_score, dissent,
\* synthesis_rules); security_override_cap: "cap" in rule.lower()
_apply_security_override(criterion_id, p_score, computed_score, dissent, synthesis_rules) ==
    IF criterion_id \notin {"safe_tool_engineering", "structured_output_enforcement"}
    THEN [score |-> computed_score, dissent |-> dissent]
    ELSE IF p_score <= 1 /\ synthesis_rules.security_override_cap
    THEN [score |-> Min(computed_score, Twelfths(3, 1)),
          dissent |-> Append(dissent, "SECURITY OVERRIDE")]
    ELSE IF p_score <= 2
    THEN [score |-> Min(computed_score, Twelfths(3, 1)),
          dissent |-> Append(dissent, "Security concern")]
    ELSE [score |-> computed_score, dissent |-> dissent]

\* _apply_fact_supremacy(criterion_id, d_score, computed_score, dissent,
\* all_evidence, defense_op)
_apply_fact_supremacy(criterion_id, d_score, computed_score, dissent, all_evidence, defense_op) ==
    IF ~defense_op.present \/ d_score < 4
    THEN [score |-> computed_score, dissent |-> dissent]
    ELSE IF /\ defense_op.value.argument.words \cap {"metacognition", "deep"} # {}
            /\ \A i \in 1..Len(all_evidence) :
                  all_evidence[i].text \notin {"metacognition", "evaluat"}
    THEN [score |-> Min(computed_score, Twelfths(3, 1)),
          dissent |-> Append(dissent, "FACT SUPREMACY")]
    ELSE [score |-> computed_score, dissent |-> dissent]

\* _apply_functionality_weight(criterion_id, t_score, p_score, d_score,
\* synthesis_rules); functionality_weight: the rule text holds "tech lead" and
\* "highest weight"
_apply_functionality_weight(criterion_id, t_score, p_score, d_score, synthesis_rules) ==
    IF criterion_id # "graph_orchestration"
    THEN Twelfths(p_score + d_score + t_score, 3)
    ELSE IF synthesis_rules.functionality_weight /\ t_score >= 4
    THEN Twelfths(p_score + d_score + 2 * t_score, 4)
    ELSE Twelfths(p_score + d_score + t_score, 3)


\* [op for op in opinions if op.criterion_id == criterion_id]
SelectOps(opinions, criterion_id) ==
    SelectSeq(opinions, LAMBDA op : op.criterion_id = criterion_id)

\* hp in arg_text: the argument names a path of which hp is a part
IsPartOf(hp, q) ==
    \E i \in 1..Len(q) : \E j \in i..Len(q) : SubSeq(q, i, j) = hp

\* any(hp in arg_text for hp in hallucinated_paths), for some opinion
CitesHallucinated(relevant_ops, hallucinated_paths) ==
    \E i \in 1..Len(relevant_ops) :
        \E hp \in Range(hallucinated_paths) :
            \E q \in relevant_ops[i].argument.paths : IsPartOf(hp, q)

\* min(relevant_ops, key=lambda x: x.score): the first of the lowest
WorstJudge(relevant_ops) ==
    relevant_ops[CHOOSE i \in 1..Len(relevant_ops) :
        /\ \A j \in 1..Len(relevant_ops) : relevant_ops[i].score <= relevant_ops[j].score
        /\ \A j \in 1..(i - 1) : relevant_ops[j].score > relevant_ops[i].score]

\* the words of the opinions' arguments quoted in the DISSENT SUMMARY note
QuotedWords(relevant_ops) ==
    UNION { relevant_ops[i].argument.words : i \in 1..Len(relevant_ops) }

\* a plausible slip: the PROSECUTOR FLOOR block left out
ProsecutorFloorMissing(p_score, final_score) ==
    [final_score |-> final_score, applied |-> FALSE]

\* if p_score <= 2: strict_limit = p_score + 1; cap final_score at it
ProsecutorFloor(p_score, final_score) ==
    IF p_score <= 2 /\ final_score > p_score + 1
    THEN [final_score |-> p_score + 1, applied |-> TRUE]
    ELSE [final_score |-> final_score, applied |-> FALSE]

\* p_score, d_score, t_score = next((op.score ...), 3) for the three judges
JudgeScores(relevant_ops) ==
    [p_score |-> ScoreOf(relevant_ops, "Prosecutor"),
     d_score |-> ScoreOf(relevant_ops, "Defense"),
     t_score |-> ScoreOf(relevant_ops, "TechLead")]

\* variance = max(p, d, t) - min(p, d, t)
Variance(sc) ==
    Max(sc.p_score, Max(sc.d_score, sc.t_score))
    - Min(sc.p_score, Min(sc.d_score, sc.t_score))

\* dissent.append("Major variance ... Re-evaluation: " + "; ".join(re_notes))
MajorVariance(re) ==
    [p_score |-> re.p_score, d_score |-> re.d_score, t_score |-> re.t_score,
     dissent |-> <<"Major variance">> \o re.notes]

\* if variance > 2 and synthesis_rules.get("variance_re_evaluation"): the
\* scores and the dissent list after the block
ReEvaluation(sc, relevant_ops, all_evidence, synthesis_rules) ==
    IF Variance(sc) > 2 /\ synthesis_rules.variance_re_evaluation
    THEN MajorVariance(_re_evaluate_evidence_for_variance(relevant_ops, all_evidence))
    ELSE [p_score |-> sc.p_score, d_score |-> sc.d_score,
          t_score |-> sc.t_score, dissent |-> <<>>]

\* computed_score = _apply_functionality_weight(...)
Base(criterion_id, sc, synthesis_rules) ==
    [score |-> _apply_functionality_weight(criterion_id, sc.t_score, sc.p_score,
                                           sc.d_score, synthesis_rules),
     dissent |-> sc.dissent]

\* a plausible slip: the `elif not dissent` branch left out
DissentNoteNoConsensus(variance, r) ==
    [score |-> r.score,
     dissent |-> IF variance > 2 THEN Append(r.dissent, "DISSENT SUMMARY")
                 ELSE r.dissent]

\* the variance note, or "Consensus reached." when nothing was noted
DissentNote(variance, r) ==
    [score |-> r.score,
     dissent |-> IF variance > 2 THEN Append(r.dissent, "DISSENT SUMMARY")
                 ELSE IF r.dissent = <<>> THEN <<"Consensus reached.">>
                 ELSE r.dissent]

\* if penalized: computed_score = min(computed_score, 2.5)
HallucinationPenalty(penalized, r) ==
    IF penalized
    THEN [score |-> Min(r.score, Twelfths(5, 2)),
          dissent |-> Append(r.dissent, "PENALTY")]
    ELSE r

\* if criterion_id == "graph_orchestration" and p_score <= 2
ProsecutorFlag(criterion_id, p_score, r) ==
    IF criterion_id = "graph_orchestration" /\ p_score <= 2
    THEN [score |-> Min(r.score, Twelfths(5, 2)),
          dissent |-> Append(r.dissent, "PROSECUTOR FLAG")]
    ELSE r

\* computed_score and dissent when the rules have been applied, in the order
\* of the loop body: functionality weight, security override, fact supremacy,
\* dissent note, hallucination penalty, prosecutor flag
ComputedScore(criterion_id, sc, variance, relevant_ops, all_evidence, hallucinated_paths, synthesis_rules) ==
    ProsecutorFlag(criterion_id, sc.p_score,
      HallucinationPenalty(CitesHallucinated(relevant_ops, hallucinated_paths),
        DissentNote(variance,
          _apply_fact_supremacy(criterion_id, sc.d_score,
            _apply_security_override(criterion_id, sc.p_score,
                Base(criterion_id, sc, synthesis_rules).score, sc.dissent,
                synthesis_rules).score,
            _apply_security_override(criterion_id, sc.p_score,
                Base(criterion_id, sc, synthesis_rules).score, sc.dissent,
                synthesis_rules).dissent,
            all_evidence, FirstOp(relevant_ops, "Defense")))))

\* remediation = f"Address concern from {worst_judge.judge}: ..."
Concern(worst_judge) ==
    [text |-> "Address concern from", judge |-> worst_judge.judge,
     argument |-> worst_judge.argument]

\* a plausible slip: remediation written for a passing dimension only
RemediationPassingOnly(final_score, relevant_ops) ==
    IF final_score >= 5 THEN [text |-> "No issues found."]
    ELSE IF final_score >= 3 THEN Concern(WorstJudge(relevant_ops))
    ELSE [text |-> ""]

\* if final_score < 5: worst_judge = min(...); else "No issues found."
Remediation(final_score, relevant_ops) ==
    IF final_score < 5 THEN Concern(WorstJudge(relevant_ops))
    ELSE [text |-> "No issues found."]

\* the keyword arguments of CriterionResult(...), with the locals p_score,
\* d_score, t_score, variance, computed_score (twelfths) and the weight
Result(dimension, relevant_ops, sc, variance, r, floor) ==
    [dimension_id |-> dimension.id,
     dimension_name |-> StateGet(dimension, "name", dimension.id),
     final_score |-> floor.final_score,
     judge_opinions |-> relevant_ops,
     dissent_summary |->
         [notes |-> IF floor.applied THEN Append(r.dissent, "PROSECUTOR FLOOR")
                    ELSE r.dissent,
          quoted |-> IF variance > 2 THEN QuotedWords(relevant_ops) ELSE {}],
     remediation |-> Remediation(floor.final_score, relevant_ops),
     p_score |-> sc.p_score, d_score |-> sc.d_score, t_score |-> sc.t_score,
     variance |-> variance,
     computed_score |-> r.score,
     weight |-> StateGet(dimension, "weight", 1)]

\* final_score = max(1, min(5, int(round(computed_score)))), then the floor
Rounded(dimension, relevant_ops, sc, variance, r) ==
    Result(dimension, relevant_ops, sc, variance, r,
           ProsecutorFloor(sc.p_score, Max(1, Min(5, Round(r.score)))))

Scored(dimension, relevant_ops, all_evidence, hallucinated_paths, synthesis_rules, variance, sc) ==
    Rounded(dimension, relevant_ops, sc, variance,
            ComputedScore(dimension.id, sc, variance, relevant_ops,
                          all_evidence, hallucinated_paths, synthesis_rules))

\* One pass of `for dimension in rubric_dimensions` for a dimension that has
\* opinions
SynthesizeDimension(dimension, relevant_ops, all_evidence, hallucinated_paths, synthesis_rules) ==
    Scored(dimension, relevant_ops, all_evidence, hallucinated_paths,
           synthesis_rules, Variance(JudgeScores(relevant_ops)),
           ReEvaluation(JudgeScores(relevant_ops), relevant_ops, all_evidence,
                        synthesis_rules))

\* the loop of chief_justice_node: the results list (dimensions without
\* opinions are skipped)
RECURSIVE SynthesizeAll(_, _, _, _, _)
SynthesizeAll(dims, opinions, all_evidence, hallucinated_paths, synthesis_rules) ==
    IF dims = <<>> THEN <<>>
    ELSE LET relevant_ops == SelectOps(opinions, StateGet(Head(dims), "id", ""))
             rest == SynthesizeAll(Tail(dims), opinions, all_evidence,
                                   hallucinated_paths, synthesis_rules)
         IN IF relevant_ops = <<>> THEN rest
            ELSE <<SynthesizeDimension(Head(dims), relevant_ops, all_evidence,
                                       hallucinated_paths, synthesis_rules)>>
                 \o rest

RECURSIVE SumWeights(_)
SumWeights(results) ==
    IF results = <<>> THEN 0
    ELSE Head(results).weight + SumWeights(Tail(results))

RECURSIVE SumWeighted(_)
SumWeighted(results) ==
    IF results = <<>> THEN 0
    ELSE Head(results).computed_score * Head(results).weight
         + SumWeighted(Tail(results))

\* a float as a fraction num/den of integers, den > 0
Frac(n, d) == [num |-> n, den |-> d]
FracLeq(a, b) == a.num * b.den <= b.num * a.den

\* the synthetic CriterionResult of the global security veto
GlobalVetoResult ==
    [dimension_id |-> "global_security_veto",
     dimension_name |-> "Global Security Veto",
     final_score |-> 1,
     judge_opinions |-> <<>>,
     dissent_summary |-> [notes |-> <<"Overall score capped">>, quoted |-> {}],
     remediation |-> [text |-> "Address security vulnerability"]]

\* any(r.final_score <= 1 and r.dimension_id == "safe_tool_engineering"
\*     for r in results)
GlobalVetoFires(results) ==
    \E i \in 1..Len(results) :
        /\ results[i].final_score <= 1
        /\ results[i].dimension_id = "safe_tool_engineering"

\* overall_score = sum(weighted_scores) / sum(criterion_weights), or 0.0
Mean(results) ==
    IF results # <<>>
    THEN Frac(SumWeighted(results), 12 * SumWeights(results))
    ELSE Frac(0, 1)

\* if safe_tool_vetoed: overall_score = min(overall_score, 2.0)
OverallScore(results) ==
    IF GlobalVetoFires(results) /\ ~FracLeq(Mean(results), Frac(2, 1))
    THEN Frac(2, 1) ELSE Mean(results)

\* ... and results.append(CriterionResult(dimension_id="global_security_veto"))
Criteria(results) ==
    IF GlobalVetoFires(results) THEN Append(results, GlobalVetoResult)
    ELSE results

\* the executive summary and the arguments of AuditReport(...)
ReportValues(criteria, overall_score, verified_paths, hallucinated_paths) ==
    [criteria |-> criteria,
     overall_score |-> overall_score,
     executive_summary |->
         [overall_score |-> overall_score,
          dimensions |-> Len(criteria),
          passed |-> Cardinality({ i \in 1..Len(criteria) : criteria[i].final_score >= 3 }),
          failed |-> { criteria[i].dimension_name :
                         i \in { j \in 1..Len(criteria) : criteria[j].final_score < 3 } },
          hallucinations |-> Len(hallucinated_paths),
          verified |-> Len(verified_paths)],
     verified_paths |-> verified_paths,
     hallucinated_paths |-> hallucinated_paths]

Reported(s, results) ==
    ReportValues(Criteria(results), OverallScore(results),
                 StateGet(s, "verified_paths", <<>>),
                 StateGet(s, "hallucinated_paths", <<>>))

\* The values chief_justice_node computes from its input, statement by
\* statement: the keyword arguments of every CriterionResult(...) it calls
\* (criteria), overall_score and the executive summary.
chief_justice_values(s, synthesis_rules) ==
    Reported(s, SynthesizeAll(StateGet(s, "rubric_dimensions", <<>>),
                              StateGet(s, "opinions", <<>>),
                              _get_all_evidence(s),
                              StateGet(s, "hallucinated_paths", <<>>),
                              synthesis_rules))

\* chief_justice_node(state).  CriterionResult declares `verdict: str` with
\* no default and the node passes none, so the first CriterionResult(...) of
\* the loop raises ValidationError; with no dimension to synthesize the node
\* reaches `from src.state import JusticeOutput`, a name src/state.py does
\* not define, and raises ImportError.
chief_justice_node(s, synthesis_rules) ==
    IF chief_justice_values(s, synthesis_rules).criteria # <<>>
    THEN { Raise("ValidationError") }
    ELSE { Raise("ImportError") }


-----------------------------------------------------------------------------
(* load_rubric, report_writer *)

\* rubric.json: missing or malformed (present = FALSE), or a JSON object with
\* its "dimensions" and what the rules read of its "synthesis_rules"
NoRubricFile == [present |-> FALSE]
RubricFile(dimensions, synthesis_rules) ==
    [present |-> TRUE, dimensions |-> dimensions,
     synthesis_rules |-> synthesis_rules]

\* synthesis_rules: variance_re_evaluation is truthy; "cap" is in
\* security_override; functionality_weight names the tech lead's highest weight
Rules(re_eval, cap, weight) ==
    [variance_re_evaluation |-> re_eval, security_override_cap |-> cap,
     functionality_weight |-> weight]

\* _load_synthesis_rules(): {} when the file cannot be read
_load_synthesis_rules(file) ==
    IF file.present THEN file.synthesis_rules ELSE Rules(FALSE, FALSE, FALSE)

\* load_rubric(state)
load_rubric(file) ==
    IF file.present
    THEN { Return([rubric_dimensions |-> file.dimensions]) }
    ELSE { Return([rubric_dimensions |-> <<>>]) }

\* report_writer(state): the report file is written inside try blocks and the
\* node returns `state`, the whole run state, as its delta
report_writer(s) == { Return(s) }

-----------------------------------------------------------------------------
(* The run of the compiled graph *)

\* a rubric dimension, as rubric.json or a caller's "rubric" gives it
Dimension(id, weight, security) ==
    [id |-> id, name |-> id, weight |-> weight, security |-> security]

DimensionPool ==
    { Dimension("safe_tool_engineering", 2, TRUE),
      Dimension("graph_orchestration", 1, FALSE) }

\* the lists of at most n distinct dimensions of a pool
RECURSIVE DimensionLists(_, _)
DimensionLists(pool, n) ==
    IF n = 0 THEN { <<>> }
    ELSE LET shorter == DimensionLists(pool, n - 1)
         IN shorter \cup
            { Append(l, d) : l \in { x \in shorter : Len(x) = n - 1 },
                             d \in pool }

DistinctIds(l) == \A i, j \in 1..Len(l) : l[i].id = l[j].id => i = j

Rubrics(pool) == { l \in DimensionLists(pool, MaxDims) : DistinctIds(l) }

\* initial_state of run_audit, and the same with a "rubric" added (AgentState
\* declares the key; run_audit does not pass it)
InitialStates ==
    LET base == [repo_url |-> "https://github.com/o/r",
                 pdf_path |-> "interim_report.pdf",
                 rubric_dimensions |-> <<>>,
                 evidences |-> <<>>,
                 opinions |-> <<>>,
                 repo_path |-> None,
                 verified_paths |-> <<>>,
                 hallucinated_paths |-> <<>>,
                 repo_manifest |-> <<>>,
                 final_report |-> None]
    IN { base } \cup
       { base @@ [rubric |-> [dimensions |-> l]] : l \in Rubrics(DimensionPool) }

RubricFiles ==
    { NoRubricFile,
      RubricFile(<<Dimension("safe_tool_engineering", 2, TRUE)>>,
                 Rules(TRUE, TRUE, TRUE)) }

\* what a channel holds after a write of v: the reducer of its annotation
Reduce(st, k, v) ==
    CASE k = "evidences" -> Ior(StateGet(st, k, <<>>), v)
      [] k \in {"opinions", "verified_paths", "hallucinated_paths"} ->
             Add(StateGet(st, k, <<>>), v)
      [] OTHER -> v

\* the run state after a delta (or the input of invoke) is written to it
ApplyDelta(st, delta) ==
    LET keys == { k \in DOMAIN delta : k \in Channels }
    IN [k \in DOMAIN st \cup keys |->
          IF k \in keys THEN Reduce(st, k, delta[k]) ELSE st[k]]

RECURSIVE ApplyWrites(_, _)
ApplyWrites(st, ws) ==
    IF ws = <<>> THEN st
    ELSE ApplyWrites(ApplyDelta(st, Head(ws).delta), Tail(ws))

\* the outcomes of calling node n on the run state
NodeOutcomes(n, s, file) ==
    CASE n = "load_rubric" -> load_rubric(file)
      [] n = "repo_investigator" -> repo_investigator(s)
      [] n = "doc_analyst" -> doc_analyst(s)
      [] n = "vision_inspector" -> vision_inspector(s)
      [] n = "evidence_aggregator" -> evidence_aggregator(s)
      [] n = "judges_entry" -> judges_entry(s)
      [] n = "prosecutor" -> prosecutor(s)
      [] n = "defense" -> defense(s)
      [] n = "tech_lead" -> tech_lead(s)
      [] n = "chief_justice" -> chief_justice_node(s, _load_synthesis_rules(file))
      [] n = "report_writer" -> report_writer(s)

Successors(ran) == { m \in Nodes \cup {"END"} : \E n \in ran : <<n, m>> \in Edges }

Init ==
    /\ rubric_json \in RubricFiles
    /\ \E input \in InitialStates : state = ApplyDelta(<<>>, input)
    /\ todo = Successors({"START"})
    /\ writes = <<>>
    /\ committed = {}
    /\ runs = [n \in Nodes |-> 0]
    /\ seen = [n \in Nodes |-> {}]
    /\ returned = [n \in Nodes |-> None]
    /\ merge_order = <<>>
    /\ route = "none"
    /\ status = "running"
    /\ exc = None
    /\ cj_values = None

\* a node of the current superstep is called on the state committed before
\* the superstep; its delta is kept until the superstep ends; an exception
\* ends the run
RunNode ==
    /\ status = "running"
    /\ \E n \in todo :
        \E out \in NodeOutcomes(n, state, rubric_json) :
            /\ runs' = [runs EXCEPT ![n] = @ + 1]
            /\ seen' = [seen EXCEPT ![n] = committed]
            /\ todo' = todo \ {n}
            /\ cj_values' =
                  IF n = "chief_justice"
                  THEN Some(chief_justice_values(state, _load_synthesis_rules(rubric_json)))
                  ELSE cj_values
            /\ IF out.kind = "return"
               THEN /\ writes' = Append(writes, [node |-> n, delta |-> out.delta])
                    /\ returned' = [returned EXCEPT ![n] = Some(out.delta)]
                    /\ UNCHANGED <<status, exc>>
               ELSE /\ status' = "raised"
                    /\ exc' = Some([node |-> n, error |-> out.exc])
                    /\ UNCHANGED <<writes, returned>>
    /\ UNCHANGED <<rubric_json, state, committed, merge_order, route>>

\* the end of a superstep: the deltas are merged through the reducers, the
\* conditional edge is evaluated and the next superstep's nodes are chosen
Commit ==
    /\ status = "running"
    /\ todo = {}
    /\ writes # <<>>
    /\ LET ran == { writes[i].node : i \in 1..Len(writes) }
           st == ApplyWrites(state, writes)
           r == IF "evidence_aggregator" \in ran THEN evidence_router(st) ELSE route
           next == Successors(ran) \cup
                   (IF "evidence_aggregator" \in ran THEN {RouterTarget(r)} ELSE {})
       IN /\ state' = st
          /\ route' = r
          /\ committed' = committed \cup ran
          /\ merge_order' = merge_order \o [i \in 1..Len(writes) |-> writes[i].node]
          /\ todo' = next \ {"END"}
          /\ status' = IF next \ {"END"} = {} THEN "END" ELSE "running"
    /\ writes' = <<>>
    /\ UNCHANGED <<rubric_json, runs, seen, returned, exc, cj_values>>

Next == RunNode \/ Commit

Spec == Init /\ [][Next]_vars

-----------------------------------------------------------------------------
(* Properties of a run of the graph *)

\* C1: a fan-in stage starts only after all of its predecessor branches have
\* finished and their deltas are merged: evidence_aggregator starts after the
\* three detectives, chief_justice after the three judges, and each of the
\* two runs at most once in a run.
C1_FanInAfterAllBranches ==
    /\ runs["evidence_aggregator"] > 0 => Detectives \subseteq seen["evidence_aggregator"]
    /\ runs["chief_justice"] > 0 => Judges \subseteq seen["chief_justice"]
    /\ runs["evidence_aggregator"] <= 1
    /\ runs["chief_justice"] <= 1

\* both fan-in stages have run, each behind its three branches
C1_Witness ==
    /\ runs["evidence_aggregator"] = 1
    /\ runs["chief_justice"] = 1
    /\ Detectives \subseteq seen["evidence_aggregator"]
    /\ Judges \subseteq seen["chief_justice"]

\* sum(len(v) for v in the delta a detective returned)
ReturnedFindings(n) == TotalFindings(returned[n].value.evidences)

\* C2: whatever the order in which the three detectives complete, the merged
\* `evidences` holds, under each detective's key, exactly the records that
\* detective returned, and as many records in total as the three returned:
\* the mapping is determined by the deltas alone, nothing is lost or
\* overwritten.
C2_MergeOrderIndependent ==
    Detectives \subseteq committed =>
        /\ DictKeys(state.evidences) = Detectives
        /\ \A n \in Detectives :
              DictGet(state.evidences, n) = Flatten(returned[n].value.evidences)
        /\ TotalFindings(state.evidences) =
              ReturnedFindings("repo_investigator") + ReturnedFindings("doc_analyst")
              + ReturnedFindings("vision_inspector")

\* the three deltas were merged in the order vision_inspector, doc_analyst,
\* repo_investigator, the reverse of the order the nodes were added in
C2_Witness ==
    /\ Detectives \subseteq committed
    /\ Len(merge_order) >= 4
    /\ SubSeq(merge_order, 2, 4) =
          <<"vision_inspector", "doc_analyst", "repo_investigator">>
    /\ TotalFindings(state.evidences) = NumRepoFindings + 3

\* C3: after evidence_aggregator exactly one branch is taken: with no
\* evidence record report_writer is next and no judge stage runs; otherwise
\* judges_entry, the three judges, chief_justice and then report_writer run,
\* so a run that took this branch is over only when report_writer has run.
C3_BranchRunsToReport ==
    /\ route = "skip_to_report" =>
          \A n \in {"judges_entry", "chief_justice"} \cup Judges : runs[n] = 0
    /\ (route = "continue_to_judges" /\ status # "running") =>
          \A n \in {"judges_entry", "chief_justice", "report_writer"} \cup Judges :
              runs[n] = 1

\* C4: every run ends at END with an AuditReport in final_report and no
\* exception escapes app.invoke.
C4_RunEndsWithReport ==
    /\ status # "raised"
    /\ status = "END" => ("final_report" \in DOMAIN state /\ state.final_report.present)

-----------------------------------------------------------------------------
(* chief_justice_node called on drawn inputs *)

\* the most dimensions of a rubric handed to chief_justice_node
MaxRubric == 2

\* JudicialOpinion.score: Field(ge=1, le=5)
Scores == 1..5

\* dimensions of a rubric: the two ids _apply_security_override names, the id
\* _apply_functionality_weight names, and two ids no rule names, one of them
\* flagged security
RubricPool ==
    { Dimension("safe_tool_engineering", 2, TRUE),
      Dimension("structured_output_enforcement", 1, TRUE),
      Dimension("secret_management", 1, TRUE),
      Dimension("graph_orchestration", 1, FALSE),
      Dimension("git_forensic_analysis", 1, FALSE) }

GhostPath == P2("src", "ghost.py")

\* the three opinions on a dimension, Prosecutor, Defense, TechLead
Opinions(id, p, d, t, p_paths, d_cited, d_words, t_cited) ==
    << JudicialOpinion("Prosecutor", id, Argument({}, p_paths), <<>>, p, FALSE),
       JudicialOpinion("Defense", id, Argument(d_words, {}), d_cited, d, FALSE),
       JudicialOpinion("TechLead", id, Argument({}, {}), t_cited, t, FALSE) >>

\* the state chief_justice_node reads
Input(dims, opinions, text) ==
    [repo_url |-> "https://github.com/o/r",
     rubric_dimensions |-> dims,
     opinions |-> opinions,
     evidences |-> << <<"repo_investigator",
                        <<Evidence("RepoInvestigator", TRUE, 100, <<>>, text)>> >> >>,
     verified_paths |-> <<>>,
     hallucinated_paths |-> <<GhostPath>>]

\* one dimension: every score of every judge, the Defense and the TechLead
\* citing the evidence record or nothing, the Defense arguing "deep" or not,
\* the Prosecutor naming the hallucinated path or not, and the evidence
\* record empty, plain, or holding a word _apply_fact_supremacy looks for
OneDimensionInputs ==
    { Input(<<dim>>,
            Opinions(dim.id, p, d, t, p_paths, d_cited, d_words, t_cited),
            text)
        : dim \in RubricPool, p \in Scores, d \in Scores, t \in Scores,
          p_paths \in { {}, {GhostPath} },
          d_cited \in { <<>>, <<"0">> }, d_words \in { {}, {"deep"} },
          t_cited \in { <<>>, <<"0">> },
          text \in { "", "text", "evaluat" } }

\* the scores <<p, d, t>> of a dimension of a rubric of several
ScoreProfiles == { <<1, 1, 1>>, <<1, 5, 4>>, <<3, 3, 3>>, <<5, 5, 5>> }

RECURSIVE ProfiledOpinions(_, _)
ProfiledOpinions(dims, profiles) ==
    IF dims = <<>> THEN <<>>
    ELSE Opinions(Head(dims).id, Head(profiles)[1], Head(profiles)[2],
                  Head(profiles)[3], {}, <<>>, {}, <<>>)
         \o ProfiledOpinions(Tail(dims), Tail(profiles))

\* rubrics of up to MaxRubric dimensions, every dimension with a profile
RubricInputs ==
    UNION { { Input(dims, ProfiledOpinions(dims, profiles), "text")
                : profiles \in [1..Len(dims) -> ScoreProfiles] }
            : dims \in { l \in DimensionLists(RubricPool, MaxRubric) : DistinctIds(l) } }

\* one dimension on which the one-opinion-per-judge rule is broken: the
\* opinion of judge `role` is missing, or a second opinion of that judge, with
\* another score, follows the three
WithoutJudge(ops, role) == SelectSeq(ops, LAMBDA op : op.judge # role)

WithSecondOpinion(ops, role, score) ==
    Append(ops, JudicialOpinion(role, ops[1].criterion_id, Argument({}, {}),
                                <<>>, score, FALSE))

JudgeRoles == {"Prosecutor", "Defense", "TechLead"}

IrregularInputs ==
    UNION { { Input(<<dim>>, WithoutJudge(Opinions(dim.id, p, d, t, {}, <<>>, {}, <<>>), role), "text"),
              Input(<<dim>>, WithSecondOpinion(Opinions(dim.id, p, d, t, {}, <<>>, {}, <<>>), role, 6 - p), "text") }
            : dim \in RubricPool, p \in {1, 5}, d \in {1, 5}, t \in {1, 5},
              role \in JudgeRoles }

\* the three stub opinions the judges substitute on a dimension when no LLM
\* answered (score 4, is_automated_fallback=True)
FallbackOpinions(id) ==
    [k \in 1..3 |->
        JudicialOpinion(<<"Prosecutor", "Defense", "TechLead">>[k], id,
                        Argument({}, {}), <<>>, 4, TRUE)]

\* one dimension judged by stubs only, or by two stubs and one LLM opinion
FallbackInputs ==
    { Input(<<dim>>, FallbackOpinions(dim.id), "text") : dim \in RubricPool }
    \cup
    { Input(<<dim>>,
            [FallbackOpinions(dim.id) EXCEPT ![1] =
                JudicialOpinion("Prosecutor", dim.id, Argument({}, {}), <<>>, p, FALSE)],
            "text")
        : dim \in RubricPool, p \in {1, 5} }

InitCJ ==
    /\ rubric_json \in { NoRubricFile, RubricFile(<<>>, Rules(TRUE, TRUE, TRUE)) }
    /\ state \in OneDimensionInputs \cup RubricInputs \cup IrregularInputs
                    \cup FallbackInputs
    /\ todo = {"chief_justice"}
    /\ writes = <<>>
    /\ committed = {}
    /\ runs = [n \in Nodes |-> 0]
    /\ seen = [n \in Nodes |-> {}]
    /\ returned = [n \in Nodes |-> None]
    /\ merge_order = <<>>
    /\ route = "none"
    /\ status = "running"
    /\ exc = None
    /\ cj_values = None

\* chief_justice_node called once on a drawn state
SpecCJ == InitCJ /\ [][RunNode]_vars

-----------------------------------------------------------------------------
(* The last superstep of a run: report_writer on the state a returning
   chief_justice would leave, and the commit of its delta *)

\* the run state when chief_justice has returned {"final_report": report} on
\* the opinions and evidence of input i
StateAfterJustice(i, synthesis_rules) ==
    [repo_url |-> i.repo_url,
     repo_path |-> None,
     rubric |-> [dimensions |-> i.rubric_dimensions],
     evidences |-> i.evidences,
     opinions |-> i.opinions,
     verified_paths |-> i.verified_paths,
     hallucinated_paths |-> i.hallucinated_paths,
     repo_manifest |-> <<>>,
     final_report |-> Some(chief_justice_values(i, synthesis_rules))]

InitRW ==
    /\ rubric_json \in { NoRubricFile, RubricFile(<<>>, Rules(TRUE, TRUE, TRUE)) }
    /\ \E i \in RubricInputs :
          state = StateAfterJustice(i, _load_synthesis_rules(rubric_json))
    /\ todo = {"report_writer"}
    /\ writes = <<>>
    /\ committed = Nodes \ {"report_writer"}
    /\ runs = [n \in Nodes |-> IF n = "report_writer" THEN 0 ELSE 1]
    /\ seen = [n \in Nodes |-> {}]
    /\ returned = [n \in Nodes |-> None]
    /\ merge_order = <<>>
    /\ route = "continue_to_judges"
    /\ status = "running"
    /\ exc = None
    /\ cj_values = None

SpecRW == InitRW /\ [][Next]_vars

-----------------------------------------------------------------------------
(* Properties of the values chief_justice_node computes.  They are stated of
   the keyword arguments the node hands to CriterionResult(...) and of its
   overall_score, the values of cj_values. *)

\* the results of the rubric's dimensions (the synthetic veto result is not
\* the result of a dimension)
DimensionResults ==
    IF cj_values.present
    THEN { r \in Range(cj_values.value.criteria) : r.dimension_id # "global_security_veto" }
    ELSE {}

\* the rubric flags the dimension security-critical
SecurityFlagged(id) ==
    \E dim \in Range(state.rubric_dimensions) : dim.id = id /\ dim.security

\* the scores the judges gave, as the opinions carry them
Given(r, judge) == ScoreOf(r.judge_opinions, judge)

\* C5: if a security dimension's result has final_score 1, overall_score <= 2.0
C5_GlobalVetoPropagation ==
    cj_values.present =>
        ((\E r \in DimensionResults : SecurityFlagged(r.dimension_id) /\ r.final_score = 1)
            => FracLeq(cj_values.value.overall_score, Frac(2, 1)))

\* C6: whenever the Prosecutor score used for a dimension is <= 2, the
\* dimension's final_score is at most that score plus one
C6_GradeInflationFloor ==
    \A r \in DimensionResults : r.p_score <= 2 => r.final_score <= r.p_score + 1

\* the floor lowered a score: Prosecutor 1 against Defense 5 and TechLead 5
C6_Witness ==
    \E r \in DimensionResults :
        /\ r.p_score = 1 /\ Given(r, "Defense") = 5 /\ Given(r, "TechLead") = 5
        /\ Round(r.computed_score) > 2
        /\ r.final_score = 2

\* the input with the Prosecutor's score on dimension `id` replaced by p
WithProsecutorScore(s, id, p) ==
    [s EXCEPT !.opinions =
        [i \in 1..Len(s.opinions) |->
            IF s.opinions[i].judge = "Prosecutor" /\ s.opinions[i].criterion_id = id
            THEN [s.opinions[i] EXCEPT !.score = p]
            ELSE s.opinions[i]]]

\* the final_score of dimension `id` on input s
FinalScoreOn(s, id) ==
    LET v == chief_justice_values(s, _load_synthesis_rules(rubric_json))
    IN (CHOOSE r \in Range(v.criteria) : r.dimension_id = id).final_score

\* C7: for a security-flagged dimension, with the Defense and TechLead
\* opinions and the evidence held fixed, a lower Prosecutor score never gives
\* a larger final_score
C7_SecurityVetoMonotone ==
    \A r \in DimensionResults :
        SecurityFlagged(r.dimension_id) =>
            \A p \in Scores :
                p < Given(r, "Prosecutor") =>
                    FinalScoreOn(WithProsecutorScore(state, r.dimension_id, p),
                                 r.dimension_id) <= r.final_score

\* a security-flagged dimension scored Prosecutor 3, Defense 5, TechLead 5
\* (variance 2); with Prosecutor 2 the variance is 3, the scores are
\* re-evaluated, and the final_score is lower
C7_Witness ==
    /\ _load_synthesis_rules(rubric_json).variance_re_evaluation
    /\ \E r \in DimensionResults :
        /\ SecurityFlagged(r.dimension_id)
        /\ Given(r, "Prosecutor") = 3 /\ Given(r, "Defense") = 5
        /\ Given(r, "TechLead") = 5
        /\ r.variance = 2
        /\ FinalScoreOn(WithProsecutorScore(state, r.dimension_id, 2),
                        r.dimension_id) < r.final_score

\* C8: if the argument of an opinion on a dimension contains a path of
\* hallucinated_paths, the dimension's final_score is below 3, whatever the
\* judges' scores
C8_HallucinationPenalty ==
    \A r \in DimensionResults :
        (\E op \in Range(r.judge_opinions) :
            \E hp \in Range(state.hallucinated_paths) :
                \E q \in op.argument.paths : IsPartOf(hp, q))
        => r.final_score < 3

\* the three judges gave 5, an argument names a hallucinated path, the
\* computed score is the 2.5 ceiling and the final score is 2
C8_Witness ==
    \E r \in DimensionResults :
        /\ Given(r, "Prosecutor") = 5 /\ Given(r, "Defense") = 5
        /\ Given(r, "TechLead") = 5
        /\ \E op \in Range(r.judge_opinions) : GhostPath \in op.argument.paths
        /\ r.computed_score = Twelfths(5, 2)
        /\ r.final_score = 2

\* C9: a security dimension with Prosecutor 1, Defense 5, TechLead 4 gets
\* final_score 1 and a dissent_summary that mentions "VETO"
C9_Scenario2 ==
    \A r \in DimensionResults :
        (/\ SecurityFlagged(r.dimension_id)
         /\ Given(r, "Prosecutor") = 1 /\ Given(r, "Defense") = 5
         /\ Given(r, "TechLead") = 4)
        => (r.final_score = 1 /\ "VETO" \in Range(r.dissent_summary.notes))

\* C10: a non-security dimension with Prosecutor 5, Defense 2, TechLead 2
\* gets final_score 2 by the tie-break, and the dissent_summary notes the
\* variance and the tie-break
C10_Scenario3 ==
    \A r \in DimensionResults :
        (/\ ~SecurityFlagged(r.dimension_id)
         /\ Given(r, "Prosecutor") = 5 /\ Given(r, "Defense") = 2
         /\ Given(r, "TechLead") = 2)
        => (/\ r.final_score = 2
            /\ "DISSENT SUMMARY" \in Range(r.dissent_summary.notes)
            /\ "TIE-BREAK" \in Range(r.dissent_summary.notes))


\* C11: a non-security dimension of weight 1 whose three opinions score 5, 5
\* and 5 gets final_score 5, a dissent_summary that is absent or "Consensus
\* reached." and the remediation "No issues found.", whatever the opinions'
\* arguments and citations
C11_Scenario1 ==
    \A r \in DimensionResults :
        (/\ ~SecurityFlagged(r.dimension_id) /\ r.weight = 1
         /\ Len(r.judge_opinions) = 3
         /\ Given(r, "Prosecutor") = 5 /\ Given(r, "Defense") = 5
         /\ Given(r, "TechLead") = 5)
        => (/\ r.final_score = 5
            /\ r.dissent_summary.notes \in { <<>>, <<"Consensus reached.">> }
            /\ r.remediation.text = "No issues found.")

\* C12: a synthesized dimension whose judge scores are 2 or more apart has a
\* non-empty dissent_summary (every note is a non-empty string, so the joined
\* summary is empty, and then None, exactly when no note was appended)
C12_DissentRequirement ==
    \A r \in DimensionResults :
        r.variance >= 2 => r.dissent_summary.notes # <<>>

\* scores exactly 2 apart with no rule firing: the summary is the consensus
\* note; and scores more than 2 apart: the summary holds the variance note
C12_Witness ==
    \E r \in DimensionResults :
        /\ r.variance = 2
        /\ r.dissent_summary.notes = <<"Consensus reached.">>

\* C13: every result of `criteria` with final_score < 3, the synthetic Global
\* Security Veto result included, has a non-empty remediation text
C13_RemediationRequirement ==
    cj_values.present =>
        \A r \in Range(cj_values.value.criteria) :
            r.final_score < 3 => r.remediation.text # ""

\* the veto fired: the criteria hold a failed dimension and the synthetic
\* result, both with a remediation
C13_Witness ==
    /\ cj_values.present
    /\ \E r \in Range(cj_values.value.criteria) :
          r.dimension_id = "global_security_veto" /\ r.final_score = 1
    /\ \E r \in DimensionResults :
          r.final_score < 3 /\ r.remediation.text = "Address concern from"

\* sum of final_score * weight over the results of the dimensions
RECURSIVE SumFinalWeighted(_)
SumFinalWeighted(results) ==
    IF results = <<>> THEN 0
    ELSE Head(results).final_score * Head(results).weight
         + SumFinalWeighted(Tail(results))

\* C14: when no global veto fires, overall_score * sum(weight) equals
\* sum(final_score * weight) over the results in criteria
C14_OverallIsMeanOfFinalScores ==
    (cj_values.present /\ cj_values.value.criteria # <<>>
     /\ \A r \in Range(cj_values.value.criteria) : r.dimension_id # "global_security_veto")
    => cj_values.value.overall_score.num * SumWeights(cj_values.value.criteria)
         = SumFinalWeighted(cj_values.value.criteria) * cj_values.value.overall_score.den

\* C15: the security override and the global veto act on exactly the
\* dimensions the rubric flags security: a low Prosecutor score (<= 2) brings
\* the override note on a flagged dimension and on no other, and the veto
\* result is appended exactly when a flagged dimension resolved to 1
C15_SecurityFlagActivatesRules ==
    cj_values.present =>
        /\ \A r \in DimensionResults :
              r.p_score <= 2 =>
                 (SecurityFlagged(r.dimension_id)
                    <=> (Range(r.dissent_summary.notes)
                           \cap {"SECURITY OVERRIDE", "Security concern"} # {}))
        /\ (\E r \in DimensionResults :
                SecurityFlagged(r.dimension_id) /\ r.final_score <= 1)
             <=> (\E r \in Range(cj_values.value.criteria) :
                    r.dimension_id = "global_security_veto")

\* C16: a security dimension whose Prosecutor or TechLead score is <= 2 (the
\* Prosecutor's not <= 1) has a final_score at most the reduced ceiling, 3,
\* even when the other two judges score 5
C16_SecurityCap ==
    \A r \in DimensionResults :
        (/\ SecurityFlagged(r.dimension_id)
         /\ Given(r, "Prosecutor") > 1
         /\ (Given(r, "Prosecutor") <= 2 \/ Given(r, "TechLead") <= 2))
        => r.final_score <= 3


-----------------------------------------------------------------------------
(* Properties of the judges and of the opinions list *)

\* how many opinions of ops are by judge `role` on criterion `id`
CountOpinions(ops, role, id) ==
    Cardinality({ i \in 1..Len(ops) : ops[i].judge = role /\ ops[i].criterion_id = id })

\* ops holds exactly one opinion by each of `roles` on each of dims, and
\* nothing else
OnePerPair(ops, roles, dims) ==
    /\ \A role \in roles : \A k \in 1..Len(dims) :
          CountOpinions(ops, role, dims[k].id) = 1
    /\ \A i \in 1..Len(ops) :
          /\ ops[i].judge \in roles
          /\ \E k \in 1..Len(dims) : ops[i].criterion_id = dims[k].id

\* C17: in a run that takes the judge branch, each judge stage returns
\* exactly one opinion for each dimension load_rubric loaded, tagged with the
\* stage's role and the dimension's id, whatever its LLM calls did
C17_OneOpinionPerLoadedDimension ==
    \A n \in Judges :
        runs[n] > 0 =>
            /\ returned[n].present
            /\ OnePerPair(returned[n].value.opinions, {JudgeRole(n)},
                          returned["load_rubric"].value.rubric_dimensions)

C19_ToleratesBrokenPairs ==
    \A r \in DimensionResults :
        (\E role \in JudgeRoles :
            CountOpinions(r.judge_opinions, role, r.dimension_id) # 1)
        => /\ \A role \in JudgeRoles :
                 CountOpinions(r.judge_opinions, role, r.dimension_id) # 1
                    => Given(r, role) = 3
           /\ status # "raised"

\* C20: an opinion a judge substitutes when every LLM failed is flagged
\* is_automated_fallback and has the neutral score 3
C20_FallbackIsNeutral ==
    \A n \in Judges :
        returned[n].present =>
            \A op \in Range(returned[n].value.opinions) :
                op.is_automated_fallback => op.score = 3


-----------------------------------------------------------------------------
(* Properties of chief_justice_node as a function of its input *)

\* the input with its `opinions` list reordered by the permutation f
Permuted(s, f) ==
    [s EXCEPT !.opinions = [i \in 1..Len(s.opinions) |-> s.opinions[f[i]]]]

\* at most one opinion per (judge, criterion_id) pair
AtMostOnePerPair(ops) ==
    \A i, j \in 1..Len(ops) :
        (ops[i].judge = ops[j].judge /\ ops[i].criterion_id = ops[j].criterion_id)
            => i = j

\* the same final_score for every dimension and the same overall_score
SameScores(v, w) ==
    /\ Len(v.criteria) = Len(w.criteria)
    /\ \A k \in 1..Len(v.criteria) :
          /\ v.criteria[k].dimension_id = w.criteria[k].dimension_id
          /\ v.criteria[k].final_score = w.criteria[k].final_score
    /\ v.overall_score = w.overall_score

\* the same remediation for every dimension
SameRemediation(v, w) ==
    /\ Len(v.criteria) = Len(w.criteria)
    /\ \A k \in 1..Len(v.criteria) :
          v.criteria[k].remediation = w.criteria[k].remediation

\* C21: given at most one opinion per (judge, criterion_id) pair, every
\* permutation of the `opinions` list yields the same final_score and the
\* same remediation for every dimension and the same overall_score
C21_OrderIndependent ==
    (cj_values.present /\ AtMostOnePerPair(state.opinions)) =>
        \A f \in Permutations(1..Len(state.opinions)) :
            /\ SameScores(cj_values.value,
                          chief_justice_values(Permuted(state, f),
                                               _load_synthesis_rules(rubric_json)))
            /\ SameRemediation(cj_values.value,
                               chief_justice_values(Permuted(state, f),
                                                    _load_synthesis_rules(rubric_json)))


-----------------------------------------------------------------------------
(* The narrative polishing of chief_justice_node *)

\* what one model of get_justice_llm() does when it is asked to polish: the
\* call raises, returns None, or returns a JusticeOutput (two texts stand for
\* the texts a model can write)
PolishOutcomes == {"raise", "none", "narrative_a", "narrative_b"}

\* get_justice_llm(): one to three models, asked in turn
PolishBehaviours == UNION { [1..n -> PolishOutcomes] : n \in 1..3 }

\* for model in justice_llms: the first response that is truthy ends the
\* loop; an exception or a falsy response passes to the next model
RECURSIVE PolishResponse(_)
PolishResponse(behaviour) ==
    IF behaviour = <<>> THEN None
    ELSE IF Head(behaviour) \in {"raise", "none"} THEN PolishResponse(Tail(behaviour))
    ELSE Some(Head(behaviour))

\* "\n".join(f"- {r.dimension_name} (Score {r.final_score}): {r.remediation}"
\*           for r in results if r.final_score < 5) or "Everything is optimal."
detailed_remediation_context(results) ==
    LET lines == SelectSeq(results, LAMBDA r : r.final_score < 5)
    IN IF lines = <<>> THEN <<"Everything is optimal.">>
       ELSE [k \in 1..Len(lines) |->
               [dimension_name |-> lines[k].dimension_name,
                final_score |-> lines[k].final_score,
                remediation |-> lines[k].remediation]]

\* a plausible slip: the report's criteria rebuilt from the model's output,
\* which names none
final_report_from_response(s, v, behaviour) ==
    [repo_url |-> s.repo_url,
     overall_score |-> v.overall_score,
     executive_summary |->
         IF PolishResponse(behaviour).present
         THEN [summary |-> PolishResponse(behaviour).value]
         ELSE v.executive_summary,
     criteria |-> IF PolishResponse(behaviour).present THEN <<>> ELSE v.criteria,
     remediation_plan |->
         IF PolishResponse(behaviour).present
         THEN [remediation |-> PolishResponse(behaviour).value]
         ELSE detailed_remediation_context(v.criteria),
     verified_paths |-> v.verified_paths,
     hallucinated_paths |-> v.hallucinated_paths]

\* the keyword arguments of AuditReport(...): executive_summary_final and
\* remediation_plan_final are the texts of the first model that responded,
\* or the deterministic summary and remediation context
final_report(s, v, behaviour) ==
    [repo_url |-> s.repo_url,
     overall_score |-> v.overall_score,
     executive_summary |->
         IF PolishResponse(behaviour).present
         THEN [summary |-> PolishResponse(behaviour).value]
         ELSE v.executive_summary,
     criteria |-> v.criteria,
     remediation_plan |->
         IF PolishResponse(behaviour).present
         THEN [remediation |-> PolishResponse(behaviour).value]
         ELSE detailed_remediation_context(v.criteria),
     verified_paths |-> v.verified_paths,
     hallucinated_paths |-> v.hallucinated_paths]

AllFallback(r) ==
    /\ r.judge_opinions # <<>>
    /\ \A op \in Range(r.judge_opinions) : op.is_automated_fallback

\* C23: a dimension whose opinions are all automated fallbacks is scored from
\* the fallback values, and the executive summary the node computes states
\* that full judicial review did not occur
C23_FallbackDisclosed ==
    cj_values.present =>
        \A r \in DimensionResults :
            AllFallback(r) =>
                /\ r.p_score = Given(r, "Prosecutor")
                /\ r.d_score = Given(r, "Defense")
                /\ r.t_score = Given(r, "TechLead")
                /\ r.final_score \in Scores
                /\ "automated_fallback" \in DOMAIN cj_values.value.executive_summary


-----------------------------------------------------------------------------
(* Properties of a run of the graph: degraded inputs *)

\* C24: when rubric.json is missing or malformed, load_rubric returns an
\* empty dimension list instead of raising, no judge stage and no
\* chief_justice fails, and the run ends with an AuditReport whose criteria
\* list is empty
C24_MissingRubricDegrades ==
    ~rubric_json.present =>
        /\ runs["load_rubric"] > 0 =>
              /\ returned["load_rubric"].present
              /\ returned["load_rubric"].value.rubric_dimensions = <<>>
        /\ status = "raised" => exc.value.node \notin Judges \cup {"chief_justice"}
        /\ status = "END" =>
              /\ state.final_report.present
              /\ state.final_report.value.criteria = <<>>


\* the records of a returned delta that describe a failure of the stage:
\* repo_investigator's and vision_inspector's records with found=False,
\* doc_analyst's single record when the PDF could not be ingested
FailureRecords(n) ==
    LET evs == Flatten(returned[n].value.evidences)
    IN IF n = "doc_analyst"
       THEN (IF Len(evs) = 1 THEN Range(evs) ELSE {})
       ELSE { ev \in Range(evs) : ~ev.found }

\* C25: a detective stage never aborts the run by raising, its delta is keyed
\* with its own name, and every record of it that describes a failure has
\* found=false and confidence=0
C25_DetectivesRecoverLocally ==
    /\ status = "raised" => exc.value.node \notin Detectives
    /\ \A n \in Detectives :
          returned[n].present =>
              /\ DictKeys(returned[n].value.evidences) = {n}
              /\ \A ev \in FailureRecords(n) : ~ev.found /\ ev.confidence = 0


-----------------------------------------------------------------------------
(* The run from evidence_aggregator on, on drawn `evidences` and
   `repo_manifest` *)

\* paths an evidence record cites: an entry of the manifest, the bare file
\* name of one, the same behind "./", a path of no file, and an allowed stub
CitedPaths ==
    { P2("src", "graph.py"), P1("graph.py"), P2(".", "graph.py"),
      P2("src", "ghost.py"), P1("standard.pdf") }

\* the list under a detective's key: empty, one record that cites no path,
\* or one record that cites one path
EvidenceLists ==
    { <<>>, <<Evidence("Detective", TRUE, 100, <<>>, "text")>> }
    \cup { <<Evidence("Detective", TRUE, 100, <<p>>, "text")>> : p \in CitedPaths }

Manifests ==
    { <<>>, SrcManifest, << P2("src", "graph.py"), P2("tests", "graph.py") >> }

\* the run state when the three detectives' deltas are merged
StateAfterDetectives(repo, doc, vision, manifest) ==
    [repo_url |-> "https://github.com/o/r",
     repo_path |-> None,
     evidences |-> << <<"repo_investigator", repo>>, <<"doc_analyst", doc>>,
                      <<"vision_inspector", vision>> >>,
     opinions |-> <<>>,
     verified_paths |-> <<>>,
     hallucinated_paths |-> <<>>,
     repo_manifest |-> manifest,
     final_report |-> None]

InitAgg ==
    /\ rubric_json = NoRubricFile
    /\ \E repo \in EvidenceLists, doc \in EvidenceLists, vision \in EvidenceLists,
          manifest \in Manifests :
          state = StateAfterDetectives(repo, doc, vision, manifest)
    /\ todo = {"evidence_aggregator"}
    /\ writes = <<>>
    /\ committed = {"load_rubric"} \cup Detectives
    /\ runs = [n \in Nodes |-> IF n \in {"load_rubric"} \cup Detectives THEN 1 ELSE 0]
    /\ seen = [n \in Nodes |-> {}]
    /\ returned = [n \in Nodes |-> None]
    /\ merge_order = <<>>
    /\ route = "none"
    /\ status = "running"
    /\ exc = None
    /\ cj_values = None

SpecAgg == InitAgg /\ [][Next]_vars

-----------------------------------------------------------------------------
(* Properties of evidence_aggregator and of the branch it opens *)

\* C28: in every run, vision_inspector returns exactly one record and
\* repo_investigator at least one, so `evidences` holds at least one record
\* when the three detectives' deltas are merged, evidence_router returns
\* "continue_to_judges" and the skip branch is never taken
C28_SkipBranchNeverTaken ==
    /\ returned["vision_inspector"].present => ReturnedFindings("vision_inspector") = 1
    /\ returned["repo_investigator"].present => ReturnedFindings("repo_investigator") >= 1
    /\ Detectives \subseteq committed => TotalFindings(state.evidences) >= 1
    /\ route # "skip_to_report"
    /\ "evidence_aggregator" \in committed => route = "continue_to_judges"

\* every detective failed: the clone, the PDF and the diagram are missing,
\* the three records all have found=False, and the judge branch is taken
C28_Witness ==
    /\ route = "continue_to_judges"
    /\ runs["judges_entry"] = 1
    /\ TotalFindings(state.evidences) = 3
    /\ \A ev \in Range(Flatten(state.evidences)) : ~ev.found

\* C26: running evidence_aggregator again on the same `evidences` and the
\* same `repo_manifest` yields the same set of verified paths and the same
\* set of hallucinated paths, also when a cited path matches more than one
\* manifest entry
C26_ClassificationDeterministic ==
    returned["evidence_aggregator"].present =>
        \A again \in evidence_aggregator(state) :
            /\ Range(again.delta.verified_paths)
                  = Range(returned["evidence_aggregator"].value.verified_paths)
            /\ Range(again.delta.hallucinated_paths)
                  = Range(returned["evidence_aggregator"].value.hallucinated_paths)

C29_CitationIndicesStable ==
    [][ "judges_entry" \in committed =>
           /\ _get_all_evidence(state') = _get_all_evidence(state)
           /\ judge_all_evidence(state') = _get_all_evidence(state') ]_vars

\* the three judges returned opinions, their deltas are merged and
\* chief_justice has read the eleven records of the three detectives
C29_Witness ==
    /\ Judges \subseteq committed
    /\ runs["chief_justice"] = 1
    /\ state.opinions # <<>>
    /\ Len(_get_all_evidence(state)) = NumRepoFindings + 3


\* no element occurs twice in the list
DuplicateFree(l) == \A i, j \in 1..Len(l) : l[i] = l[j] => i = j

\* C30: in the delta evidence_aggregator returns, every entry of
\* verified_paths is an entry of repo_manifest or an allowed stub and no
\* entry of hallucinated_paths is; the two lists are disjoint and
\* duplicate-free; and every extracted candidate is accounted for in exactly
\* one class: it is in hallucinated_paths, or an entry it matches is in
\* verified_paths
C30_ClassesPartitionCandidates ==
    returned["evidence_aggregator"].present =>
        LET d == returned["evidence_aggregator"].value
            allowed == Range(state.repo_manifest) \cup AllowedStubs
            cands == Candidates(_get_all_evidence(state))
        IN /\ Range(d.verified_paths) \subseteq allowed
           /\ Range(d.hallucinated_paths) \cap allowed = {}
           /\ Range(d.verified_paths) \cap Range(d.hallucinated_paths) = {}
           /\ DuplicateFree(d.verified_paths)
           /\ DuplicateFree(d.hallucinated_paths)
           /\ Range(d.hallucinated_paths) \subseteq cands
           /\ \A c \in cands :
                 (c \in Range(d.hallucinated_paths))
                    <=> ~(\E rf \in Range(d.verified_paths) : PathMatches(c, rf))

\* a bare file name was verified by the longer manifest entry it is the
\* suffix of, while another cited path was classed hallucinated
C30_Witness ==
    /\ returned["evidence_aggregator"].present
    /\ P1("graph.py") \in Candidates(_get_all_evidence(state))
    /\ P1("graph.py") \notin Range(returned["evidence_aggregator"].value.verified_paths)
    /\ P2("src", "graph.py") \in Range(returned["evidence_aggregator"].value.verified_paths)
    /\ P2("src", "ghost.py") \in Range(returned["evidence_aggregator"].value.hallucinated_paths)

=============================================================================
